---- MODULE Spec2Model ----
(***************************************************************************)
(* Payroll verification app (src/payroll.py): one Streamlit script that is *)
(* rerun from the top on every user interaction.  The model follows one    *)
(* browser session: the process environment, the widget state the browser  *)
(* keeps between reruns, st.session_state, and the position of the script  *)
(* inside the current run.                                                 *)
(*                                                                         *)
(* A run is not interrupted: an interaction is taken up once the script   *)
(* has finished (pc = "idle") or has stopped at startup (pc = "halted").   *)
(*                                                                         *)
(* Python values are tagged records [t |-> kind, ...] so that values of    *)
(* different kinds can be held by the same variable.                       *)
(***************************************************************************)
EXTENDS Integers, Sequences, FiniteSets, TLC

VARIABLES
  env_key,               \* os.environ["OPENAI_API_KEY"] of the server process
  pc,                    \* position of the script in the current run
  payroll_file,          \* value of the payroll st.file_uploader widget
  receipt_file,          \* value of the receipt st.file_uploader widget
  verify_button,         \* value st.button returns in the current run
  button,                \* the verify button as last rendered
  ss_api_key,            \* st.session_state.openai_api_key
  payroll_data,          \* st.session_state.payroll_data
  receipt_text,          \* st.session_state.receipt_text
  verification_results,  \* st.session_state.verification_results
  calls,                 \* model-endpoint requests issued by the current run
  messages,              \* st.error / st.success texts shown by the current run
  extracted,             \* what the receipt extraction of the current run returned
  tmp_file,              \* the temporary PDF of the current run's extraction
  display                \* what the results presenter rendered in the current run

vars == <<env_key, pc, payroll_file, receipt_file, verify_button, button,
          ss_api_key, payroll_data, receipt_text, verification_results,
          calls, messages, extracted, tmp_file, display>>

session == <<payroll_data, receipt_text, verification_results>>

-----------------------------------------------------------------------------
(* Bounds of the model *)

MaxRows == 1      \* data rows of an uploaded spreadsheet
MaxPages == 3     \* pages of a PDF receipt
MaxEntries == 2   \* entries of a matches / discrepancies array in a reply

SeqsUpTo(S, n) == UNION {[1..k -> S] : k \in 0..n}

-----------------------------------------------------------------------------
(* Python values *)

PyNone == [t |-> "None"]
Unset == [t |-> "unset"]          \* key not in st.session_state
Raised == [t |-> "exc"]           \* the call raised
Text(s) == [t |-> "text", v |-> s]   \* OCR text, a sequence of characters
DataFrame(n) == [t |-> "df", rows |-> n]

JNull == [t |-> "null"]
JBool(b) == [t |-> "bool", v |-> b]
JNum(n) == [t |-> "num", v |-> n]
JStr(s) == [t |-> "str", v |-> s]
JList(s) == [t |-> "list", v |-> s]
JObj(pairs) == [t |-> "obj", v |-> pairs]   \* pairs <<key, value>> in document order
JErr == [t |-> "err"]                        \* json.loads raises on this text

\* The text of a model reply, described by what json.loads makes of it.
Reply(isEmpty, parsed) == [t |-> "reply", empty |-> isEmpty, parse |-> parsed]

\* Python truth value
Truthy(x) ==
  CASE x.t \in {"None", "unset", "null", "exc"} -> FALSE
    [] x.t = "bool" -> x.v
    [] x.t = "num" -> x.v # 0
    [] x.t = "str" -> x.v # ""
    [] x.t \in {"text", "list", "obj"} -> Len(x.v) > 0
    [] x.t = "reply" -> ~x.empty
    [] OTHER -> TRUE

\* st.session_state.get(key)
session_get(x) == IF x.t = "unset" THEN PyNone ELSE x

\* dict lookups on a parsed JSON object
HasKey(o, k) == \E i \in 1..Len(o.v) : o.v[i][1] = k
dict_get(o, k, default) ==
  IF HasKey(o, k) THEN o.v[CHOOSE i \in 1..Len(o.v) : o.v[i][1] = k][2] ELSE default
dict_keys(o) == [i \in 1..Len(o.v) |-> o.v[i][1]]

-----------------------------------------------------------------------------
(* Uploaded files, described by what the libraries make of them *)

\* readable: pd.read_excel returns a table; displayable: st.dataframe renders it
Xls(ok, n, shown) == [t |-> "xls", readable |-> ok, rows |-> n, displayable |-> shown]
PayrollFiles ==
  {Xls(FALSE, 0, FALSE)} \cup {Xls(TRUE, n, shown) : n \in 0..MaxRows, shown \in BOOLEAN}

OcrRaises == [t |-> "ocr_error"]   \* a raster image pytesseract fails on
NL == "\n"
PageTexts == {Text(<<>>), Text(<<"a">>), Text(<<"b">>)}
PageImages == PageTexts \cup {OcrRaises}

ImageFile(ok, img) == [t |-> "image", openable |-> ok, image |-> img]
PdfFile(f, p) == [t |-> "pdf", fault |-> f, pages |-> p]

ImageFiles == {ImageFile(FALSE, OcrRaises)} \cup {ImageFile(TRUE, i) : i \in PageImages}
PdfFiles ==
  {PdfFile("read", <<>>), PdfFile("raster", <<>>)}
    \cup {PdfFile("none", p) : p \in SeqsUpTo(PageImages, MaxPages)}
ReceiptFiles == ImageFiles \cup PdfFiles

\* The receipts uploaded in the session specification.
SessionReceiptFiles ==
  { ImageFile(FALSE, OcrRaises), ImageFile(TRUE, OcrRaises),
    ImageFile(TRUE, Text(<<>>)), ImageFile(TRUE, Text(<<"a">>)),
    PdfFile("read", <<>>), PdfFile("raster", <<>>), PdfFile("none", <<>>),
    PdfFile("none", <<Text(<<"b">>)>>),
    PdfFile("none", <<Text(<<"a">>), OcrRaises>>),
    PdfFile("none", <<Text(<<"a">>), Text(<<"b">>)>>) }

EnvValues == {"unset", "", "sk-key"}   \* os.getenv result; "unset" is None

-----------------------------------------------------------------------------
(* extract_text_from_image / extract_text_from_pdf *)

extract_text_from_image(image) ==
  IF image.t = "ocr_error"
    THEN [ret |-> PyNone, errs |-> {"Error extracting text from image"}]
    ELSE [ret |-> image, errs |-> {}]

\* Mutant of pdf_loop: each page's text is put before the text read so far.
RECURSIVE pdf_loop_reversed(_, _, _)
pdf_loop_reversed(images, text, errs) ==
  IF images = <<>> THEN [ret |-> Text(text), errs |-> errs]
  ELSE LET r == extract_text_from_image(Head(images)) IN
       IF r.ret.t = "None"
         THEN [ret |-> Raised, errs |-> errs \cup r.errs]
         ELSE pdf_loop_reversed(Tail(images), r.ret.v \o <<NL>> \o text, errs \cup r.errs)

\* for image in images: text += extract_text_from_image(image) + "\n"
RECURSIVE pdf_loop(_, _, _)
pdf_loop(images, text, errs) ==
  IF images = <<>> THEN [ret |-> Text(text), errs |-> errs]
  ELSE LET r == extract_text_from_image(Head(images)) IN
       IF r.ret.t = "None"
         THEN [ret |-> Raised, errs |-> errs \cup r.errs]   \* None + "\n": TypeError
         ELSE pdf_loop(Tail(images), text \o r.ret.v \o <<NL>>, errs \cup r.errs)

PdfError == "Error extracting text from PDF"

extract_text_from_pdf(pdf_file) ==
  IF pdf_file.fault \in {"read", "raster"}
    \* the exception leaves the try block before os.unlink is reached
    THEN [ret |-> PyNone, tmp |-> "exists", errs |-> {PdfError}]
    ELSE LET r == pdf_loop(pdf_file.pages, <<>>, {}) IN
         IF r.ret.t = "exc"
           THEN [ret |-> PyNone, tmp |-> "deleted", errs |-> r.errs \cup {PdfError}]
           ELSE [ret |-> r.ret, tmp |-> "deleted", errs |-> r.errs]

\* lines 170-175: the branch on the content type
process_receipt(file) ==
  IF file.t = "pdf" THEN extract_text_from_pdf(file)
  ELSE IF ~file.openable
    THEN [ret |-> Raised, tmp |-> "none", errs |-> {"Error processing receipt"}]
    ELSE LET r == extract_text_from_image(file.image) IN
         [ret |-> r.ret, tmp |-> "none", errs |-> r.errs]

-----------------------------------------------------------------------------
(* verify_with_openai *)

ApiError == [t |-> "api_error"]

verify_with_openai(table, text, outcome) ==
  IF table.t # "df"
    THEN [ret |-> PyNone, called |-> FALSE, errs |-> {"Error during OpenAI verification"}]
  ELSE IF outcome.t = "api_error"
    THEN [ret |-> PyNone, called |-> TRUE, errs |-> {"Error during OpenAI verification"}]
    ELSE [ret |-> outcome, called |-> TRUE, errs |-> {}]

-----------------------------------------------------------------------------
(* Results presenter, lines 211-306 *)

NoDisplay ==
  [info |-> PyNone, tab1 |-> "none", tab2 |-> "none", report |-> PyNone,
   file_name |-> PyNone, error |-> FALSE, code |-> PyNone]

\* Mutant of render_failed: the error is reported and the stored text dropped.
render_failed_drops_raw(shown, raw) == [shown EXCEPT !.error = TRUE]

\* except Exception: st.error(...); st.code(st.session_state.verification_results)
render_failed(shown, raw) == [shown EXCEPT !.error = TRUE, !.code = raw]

IsDictList(x) == x.t = "list" /\ \A i \in 1..Len(x.v) : x.v[i].t = "obj"

\* pd.DataFrame(x): builds a frame from a list of records and rejects a scalar;
\* what it does with any other list or with a dict is the library's choice
\* (libraryRaises).
DataFrameRaises(x, libraryRaises) ==
  IF IsDictList(x) THEN FALSE
  ELSE IF x.t \in {"list", "obj"} THEN libraryRaises
  ELSE TRUE

\* 'severity' in discrepancies_df.columns
HasSeverityColumn(x) ==
  IF x.t = "obj" THEN HasKey(x, "severity")
  ELSE \E i \in 1..Len(x.v) : x.v[i].t = "obj" /\ HasKey(x.v[i], "severity")

\* results[key][0].keys() and entry.get(key, '') need a list of dicts
csv_section_raises(entries) == Truthy(entries) /\ ~IsDictList(entries)

\* Mutant of csv_rows: every row is written from its own entry's fields.
csv_rows_own_keys(entries) ==
  [j \in 1..Len(entries.v) |->
     [i \in 1..Len(entries.v[j].v) |-> entries.v[j].v[i][2]]]

\* [match.get(key, '') for key in results[...][0].keys()] for every entry
csv_rows(entries) ==
  LET keys == dict_keys(entries.v[1]) IN
  [j \in 1..Len(entries.v) |->
     [i \in 1..Len(keys) |-> dict_get(entries.v[j], keys[i], JStr(""))]]

csv_section(title, entries, noneLine) ==
  <<<<JStr(title)>>>> \o
  (IF Truthy(entries)
     THEN LET keys == dict_keys(entries.v[1]) IN
          <<[i \in 1..Len(keys) |-> JStr(keys[i])]>> \o csv_rows(entries)
     ELSE <<<<JStr(noneLine)>>>>)

TitlePrefix == "Verification Report - Generated on "
DefaultAssessment == JStr("No overall assessment provided")

csv_report(results, now) ==
  << <<JStr(TitlePrefix \o now.title)>>, <<>>, <<JStr("Overall Assessment")>>,
     <<dict_get(results, "overall_assessment", DefaultAssessment)>>, <<>> >>
  \o csv_section("Matches", dict_get(results, "matches", JNull), "No matches found")
  \o << <<>> >>
  \o csv_section("Discrepancies", dict_get(results, "discrepancies", JNull),
                 "No discrepancies found")

\* The body of `if st.session_state.get('verification_results'):`
render(raw, now, now2, libraryRaises) ==
  LET results == raw.parse IN
  IF results.t = "err" THEN render_failed(NoDisplay, raw)         \* json.loads raises
  ELSE IF results.t # "obj" THEN render_failed(NoDisplay, raw)    \* results.get raises
  ELSE
    LET matches == dict_get(results, "matches", JNull)
        discrepancies == dict_get(results, "discrepancies", JNull)
        d1 == [NoDisplay EXCEPT
                 !.info = dict_get(results, "overall_assessment", DefaultAssessment)]
    IN
    IF Truthy(matches) /\ DataFrameRaises(matches, libraryRaises)
      THEN render_failed(d1, raw)
    ELSE
      LET d2 == [d1 EXCEPT !.tab1 = IF Truthy(matches) THEN "table" ELSE "notice"] IN
      IF Truthy(discrepancies) /\ DataFrameRaises(discrepancies, libraryRaises)
        THEN render_failed(d2, raw)
      ELSE
        LET d3 == [d2 EXCEPT !.tab2 =
                     IF ~Truthy(discrepancies) THEN "notice"
                     ELSE IF HasSeverityColumn(discrepancies) THEN "styled"
                     ELSE "table"]
        IN
        IF csv_section_raises(matches) \/ csv_section_raises(discrepancies)
          THEN render_failed(d3, raw)
          ELSE [d3 EXCEPT
                  !.report = [t |-> "csv", rows |-> csv_report(results, now)],
                  !.file_name = JStr("payroll_verification_report_" \o now2.file \o ".csv")]

-----------------------------------------------------------------------------
(* Inputs from outside: the clock and the model endpoint's replies *)

\* datetime.now() as strftime('%Y-%m-%d %H:%M:%S') and strftime('%Y%m%d_%H%M%S')
Clock ==
  { [title |-> "2025-01-01 10:00:00", file |-> "20250101_100000"],
    [title |-> "2025-01-01 10:00:01", file |-> "20250101_100001"] }

Absent == [t |-> "absent"]
MkObject(m, d, a) ==
  JObj(SelectSeq(<< <<"matches", m>>, <<"discrepancies", d>>, <<"overall_assessment", a>> >>,
                 LAMBDA p : p[2].t # "absent"))

Entry1 == JObj(<< <<"item", JStr("name")>>, <<"status", JStr("match")>> >>)
Entry2 == JObj(<< <<"details", JStr("x")>>, <<"item", JStr("date")>> >>)
Entry3 == JObj(<< <<"severity", JStr("high")>> >>)
Entries == {Entry1, Entry2, Entry3, JNum(5)}

FieldValues ==
  { JNull, JBool(FALSE), JBool(TRUE), JNum(0), JNum(5), JStr(""), JStr("abc"),
    JObj(<<>>), JObj(<< <<"a", JNum(1)>> >>) }
    \cup {JList(s) : s \in SeqsUpTo(Entries, MaxEntries)}

ObjectReplies ==
  { Reply(FALSE, MkObject(m, d, a)) :
      m \in FieldValues \cup {Absent}, d \in FieldValues \cup {Absent},
      a \in {Absent, JStr("ok")} }
OtherReplies ==
  { Reply(FALSE, v) :
      v \in {JErr, JNull, JBool(TRUE), JNum(0), JStr("abc"), JList(<<>>), JList(<<Entry1>>)} }
StoredReplies == ObjectReplies \cup OtherReplies

\* What a request to the model endpoint can come back with in the session
\* specification: an exception, no content, or a text.
SessionOutcomes ==
  { ApiError, PyNone, Reply(TRUE, JErr), Reply(FALSE, JErr), Reply(FALSE, JList(<<>>)),
    Reply(FALSE, MkObject(JList(<<Entry1>>), JList(<<>>), JStr("ok"))),
    Reply(FALSE, MkObject(JNum(0), JList(<<Entry3, Entry2>>), Absent)) }

-----------------------------------------------------------------------------
(* The script, stage by stage *)

KeyError == "OpenAI API key not found in environment variables"

\* Mutant of Startup: the error is shown and the script goes on (no st.stop()).
Startup_NoStop ==
  /\ pc = "start"
  /\ \E dotenv \in EnvValues :
       env_key' = IF env_key = "unset" THEN dotenv ELSE env_key
  /\ calls' = 0 /\ extracted' = Unset /\ tmp_file' = "none"
  /\ display' = NoDisplay /\ button' = "not_rendered"
  /\ messages' = IF env_key' \in {"unset", ""} THEN {KeyError} ELSE {}
  /\ ss_api_key' = env_key'
  /\ payroll_data' = session_get(payroll_data)
  /\ receipt_text' = session_get(receipt_text)
  /\ verification_results' = session_get(verification_results)
  /\ pc' = "payroll"
  /\ UNCHANGED <<payroll_file, receipt_file, verify_button>>

\* lines 17-41: load_dotenv, the credential check, session state initialisation.
\* load_dotenv sets the variable from the .env file only when the environment
\* does not hold it yet.
Startup ==
  /\ pc = "start"
  /\ \E dotenv \in EnvValues :
       env_key' = IF env_key = "unset" THEN dotenv ELSE env_key
  /\ calls' = 0 /\ extracted' = Unset /\ tmp_file' = "none"
  /\ display' = NoDisplay /\ button' = "not_rendered"
  /\ IF env_key' \in {"unset", ""}
       THEN /\ messages' = {KeyError}
            /\ pc' = "halted"                            \* st.stop()
            /\ UNCHANGED <<ss_api_key, payroll_data, receipt_text, verification_results>>
       ELSE /\ messages' = {}
            /\ ss_api_key' = env_key'
            /\ payroll_data' = session_get(payroll_data)
            /\ receipt_text' = session_get(receipt_text)
            /\ verification_results' = session_get(verification_results)
            /\ pc' = "payroll"
  /\ UNCHANGED <<payroll_file, receipt_file, verify_button>>

\* Mutant of PayrollStage: a file that cannot be read clears the held table.
PayrollStage_ClearOnError ==
  /\ pc = "payroll"
  /\ IF payroll_file.t = "None"
       THEN UNCHANGED <<payroll_data, messages>>
       ELSE IF payroll_file.readable
         THEN /\ payroll_data' = DataFrame(payroll_file.rows)
              /\ messages' = messages \cup {"Payroll data loaded successfully!"}
                               \cup (IF payroll_file.displayable THEN {}
                                     ELSE {"Error reading payroll file"})
         ELSE /\ messages' = messages \cup {"Error reading payroll file"}
              /\ payroll_data' = PyNone
  /\ pc' = "receipt"
  /\ UNCHANGED <<env_key, payroll_file, receipt_file, verify_button, button, ss_api_key,
                 receipt_text, verification_results, calls, extracted, tmp_file, display>>

\* lines 151-160
PayrollStage ==
  /\ pc = "payroll"
  /\ IF payroll_file.t = "None"
       THEN UNCHANGED <<payroll_data, messages>>
       ELSE IF payroll_file.readable
         THEN /\ payroll_data' = DataFrame(payroll_file.rows)   \* pd.read_excel
              /\ messages' = messages \cup {"Payroll data loaded successfully!"}
                               \cup (IF payroll_file.displayable THEN {}
                                     ELSE {"Error reading payroll file"})
         ELSE /\ messages' = messages \cup {"Error reading payroll file"}
              /\ UNCHANGED payroll_data
  /\ pc' = "receipt"
  /\ UNCHANGED <<env_key, payroll_file, receipt_file, verify_button, button, ss_api_key,
                 receipt_text, verification_results, calls, extracted, tmp_file, display>>

\* lines 167-187
ReceiptStage ==
  /\ pc = "receipt"
  /\ IF receipt_file.t = "None"
       THEN UNCHANGED <<receipt_text, messages, extracted, tmp_file>>
       ELSE LET r == process_receipt(receipt_file) IN
            /\ extracted' = r.ret
            /\ tmp_file' = r.tmp
            /\ IF r.ret.t = "exc"
                 THEN /\ messages' = messages \cup r.errs
                      /\ UNCHANGED receipt_text
                 ELSE IF Truthy(r.ret)
                   THEN /\ receipt_text' = r.ret
                        /\ messages' = messages \cup r.errs
                                         \cup {"Receipt processed successfully!"}
                   ELSE /\ messages' = messages \cup r.errs
                                         \cup {"Failed to extract text from the receipt."}
                        /\ UNCHANGED receipt_text
  /\ pc' = "button"
  /\ UNCHANGED <<env_key, payroll_file, receipt_file, verify_button, button, ss_api_key,
                 payroll_data, verification_results, calls, display>>

\* Mutant of verify_enabled: one of the two inputs is enough.
verify_enabled_either(table, text) == table.t # "None" \/ text.t # "None"

\* Mutant of ButtonStage: the verification runs whenever the button is enabled.
ButtonStage_VerifyWhenEnabled ==
  /\ pc = "button"
  /\ button' = IF session_get(payroll_data).t # "None" /\ session_get(receipt_text).t # "None"
                 THEN "enabled" ELSE "disabled"
  /\ pc' = IF button' = "enabled" THEN "verify" ELSE "present"
  /\ UNCHANGED <<env_key, payroll_file, receipt_file, verify_button, ss_api_key,
                 payroll_data, receipt_text, verification_results, calls, messages,
                 extracted, tmp_file, display>>

\* lines 193-199: the button is rendered, and returns whether it was clicked
verify_enabled(table, text) == table.t # "None" /\ text.t # "None"

ButtonStage ==
  /\ pc = "button"
  /\ button' = IF verify_enabled(session_get(payroll_data), session_get(receipt_text))
                 THEN "enabled" ELSE "disabled"
  /\ pc' = IF verify_button THEN "verify" ELSE "present"
  /\ UNCHANGED <<env_key, payroll_file, receipt_file, verify_button, ss_api_key,
                 payroll_data, receipt_text, verification_results, calls, messages,
                 extracted, tmp_file, display>>

\* lines 199-208
VerifyStage ==
  /\ pc = "verify"
  /\ \E outcome \in SessionOutcomes :
       LET r == verify_with_openai(payroll_data, receipt_text, outcome) IN
       /\ calls' = IF r.called THEN calls + 1 ELSE calls
       /\ IF Truthy(r.ret)
            THEN /\ verification_results' = r.ret
                 /\ messages' = messages \cup r.errs \cup {"Verification completed!"}
            ELSE /\ messages' = messages \cup r.errs
                 /\ UNCHANGED verification_results
  /\ pc' = "present"
  /\ UNCHANGED <<env_key, payroll_file, receipt_file, verify_button, button, ss_api_key,
                 payroll_data, receipt_text, extracted, tmp_file, display>>

\* lines 211-306
PresentStage ==
  /\ pc = "present"
  /\ \E now \in Clock, now2 \in Clock, libraryRaises \in BOOLEAN :
       display' = IF Truthy(session_get(verification_results))
                    THEN render(verification_results, now, now2, libraryRaises)
                    ELSE NoDisplay
  /\ pc' = "idle"
  /\ UNCHANGED <<env_key, payroll_file, receipt_file, verify_button, button, ss_api_key,
                 payroll_data, receipt_text, verification_results, calls, messages,
                 extracted, tmp_file>>

-----------------------------------------------------------------------------
(* User interactions: each changes a widget's value and reruns the script *)

Trigger(clicked) ==
  /\ verify_button' = clicked
  /\ pc' = "start"
  /\ UNCHANGED <<env_key, button, ss_api_key, payroll_data, receipt_text,
                 verification_results, calls, messages, extracted, tmp_file, display>>

UploadPayroll(f) ==
  /\ pc = "idle" /\ payroll_file' = f /\ UNCHANGED receipt_file /\ Trigger(FALSE)

RemovePayroll ==
  /\ pc = "idle" /\ payroll_file.t # "None"
  /\ payroll_file' = PyNone /\ UNCHANGED receipt_file /\ Trigger(FALSE)

UploadReceipt(f) ==
  /\ pc = "idle" /\ receipt_file' = f /\ UNCHANGED payroll_file /\ Trigger(FALSE)

RemoveReceipt ==
  /\ pc = "idle" /\ receipt_file.t # "None"
  /\ receipt_file' = PyNone /\ UNCHANGED payroll_file /\ Trigger(FALSE)

ClickVerify ==
  /\ pc = "idle" /\ button = "enabled"
  /\ UNCHANGED <<payroll_file, receipt_file>> /\ Trigger(TRUE)

ClickDownload ==
  /\ pc = "idle" /\ display.report.t = "csv"
  /\ UNCHANGED <<payroll_file, receipt_file>> /\ Trigger(FALSE)

\* "Rerun" of the app menu, also offered when the script stopped at startup
Rerun ==
  /\ pc \in {"idle", "halted"}
  /\ UNCHANGED <<payroll_file, receipt_file>> /\ Trigger(FALSE)

-----------------------------------------------------------------------------
(* Specifications *)

Init ==
  /\ env_key \in EnvValues
  /\ pc = "start"
  /\ payroll_file = PyNone /\ receipt_file = PyNone
  /\ verify_button = FALSE /\ button = "not_rendered"
  /\ ss_api_key = "unset"
  /\ payroll_data = Unset /\ receipt_text = Unset /\ verification_results = Unset
  /\ calls = 0 /\ messages = {} /\ extracted = Unset /\ tmp_file = "none"
  /\ display = NoDisplay

Next ==
  \/ Startup
  \/ PayrollStage
  \/ ReceiptStage
  \/ ButtonStage
  \/ VerifyStage
  \/ PresentStage
  \/ \E f \in PayrollFiles : UploadPayroll(f)
  \/ RemovePayroll
  \/ \E f \in SessionReceiptFiles : UploadReceipt(f)
  \/ RemoveReceipt
  \/ ClickVerify
  \/ ClickDownload
  \/ Rerun

\* A session of the app.
Spec == Init /\ [][Next]_vars

\* The receipt stage on every receipt file, with or without an earlier text held.
InitExtract ==
  /\ env_key = "sk-key" /\ ss_api_key = "sk-key"
  /\ pc = "receipt"
  /\ payroll_file = PyNone /\ receipt_file \in ReceiptFiles
  /\ verify_button = FALSE /\ button = "not_rendered"
  /\ payroll_data = PyNone /\ receipt_text \in {PyNone, Text(<<"o">>)}
  /\ verification_results = PyNone
  /\ calls = 0 /\ messages = {} /\ extracted = Unset /\ tmp_file = "none"
  /\ display = NoDisplay

NextExtract == ReceiptStage

SpecExtract == InitExtract /\ [][NextExtract]_vars

\* The presenter on every stored reply.
InitPresenter ==
  /\ env_key = "sk-key" /\ ss_api_key = "sk-key"
  /\ pc = "present"
  /\ payroll_file = PyNone /\ receipt_file = PyNone
  /\ verify_button \in BOOLEAN /\ button = "enabled"
  /\ payroll_data = DataFrame(1) /\ receipt_text = Text(<<"a">>)
  /\ verification_results \in StoredReplies
  /\ calls = 0 /\ messages = {} /\ extracted = Unset /\ tmp_file = "none"
  /\ display = NoDisplay

NextPresenter == PresentStage

SpecPresenter == InitPresenter /\ [][NextPresenter]_vars

-----------------------------------------------------------------------------
(* Claims *)

Shown(msg) == msg \in messages
StageReports(msg) == msg \notin messages /\ msg \in messages'

\* C1: when extract_text_from_pdf has returned, on every path, the temporary
\* PDF file it created no longer exists on disk.
C1_TempFileDeleted ==
  (pc = "button" /\ receipt_file.t = "pdf") => tmp_file # "exists"

\* C2: the verify action can be triggered, and verify_with_openai called, only
\* while the session holds a payroll table with at least one row and a
\* non-empty receipt text.
C2_VerifyNeedsNonEmptyInputs ==
  (button = "enabled" \/ pc = "verify") =>
     /\ payroll_data.t = "df" /\ payroll_data.rows > 0
     /\ receipt_text.t = "text" /\ Len(receipt_text.v) > 0

\* C3: a stage that fails (spreadsheet read, receipt extraction, model
\* endpoint) leaves payroll_data, receipt_text and verification_results exactly
\* as they were.
ReceiptErrors ==
  { "Error extracting text from PDF", "Error extracting text from image",
    "Error processing receipt", "Failed to extract text from the receipt." }

C3_FailureKeepsSession ==
  [][ ( \/ pc = "payroll" /\ payroll_file.t = "xls" /\ ~payroll_file.readable
              /\ StageReports("Error reading payroll file")
        \/ \E e \in ReceiptErrors : StageReports(e)
        \/ StageReports("Error during OpenAI verification") )
      => UNCHANGED session ]_vars

C3_Witness ==
  /\ pc = "idle"
  /\ payroll_file.t = "xls" /\ ~payroll_file.readable
  /\ Shown("Error reading payroll file")
  /\ Shown("Error extracting text from PDF")
  /\ Shown("Error during OpenAI verification")
  /\ payroll_data.t = "df" /\ receipt_text.t = "text"
  /\ verification_results.t = "reply"

\* C4: for a PDF whose pages all pass OCR, the returned text is the pages'
\* texts in page order, none skipped or duplicated.
AllPagesRead(f) ==
  f.t = "pdf" /\ f.fault = "none" /\ \A i \in 1..Len(f.pages) : f.pages[i].t = "text"

RECURSIVE PageOffset(_, _)
\* characters of the result that precede page i when every page is followed by
\* one newline
PageOffset(pages, i) ==
  IF i = 1 THEN 0 ELSE PageOffset(pages, i - 1) + Len(pages[i - 1].v) + 1

RECURSIVE JoinPages(_)
\* the pages' texts with a newline between consecutive pages only
JoinPages(pages) ==
  IF pages = <<>> THEN <<>>
  ELSE IF Len(pages) = 1 THEN pages[1].v
  ELSE pages[1].v \o <<NL>> \o JoinPages(Tail(pages))

\* C4 as stated: a newline separates the pages and nothing follows page P.
C4_NewlineBetweenPagesOnly ==
  (pc = "button" /\ AllPagesRead(receipt_file)) =>
     extracted.t = "text" /\ extracted.v = JoinPages(receipt_file.pages)

\* C4 as amended: every page's text, the last included, is followed by one
\* newline.
C4_NewlineAfterEveryPage ==
  (pc = "button" /\ AllPagesRead(receipt_file)) =>
     LET pages == receipt_file.pages
         P == Len(pages)
     IN /\ extracted.t = "text"
        /\ Len(extracted.v) = PageOffset(pages, P + 1)
        /\ \A i \in 1..P :
             LET off == PageOffset(pages, i)
                 n == Len(pages[i].v)
             IN /\ SubSeq(extracted.v, off + 1, off + n) = pages[i].v
                /\ extracted.v[off + n + 1] = NL

C4_Witness ==
  /\ pc = "button" /\ AllPagesRead(receipt_file)
  /\ Len(receipt_file.pages) = 3
  /\ receipt_file.pages[1] = Text(<<"a">>)
  /\ receipt_file.pages[2] = Text(<<>>)
  /\ receipt_file.pages[3] = Text(<<"b">>)
  /\ extracted.t = "text"

\* C5: every extraction that returns a string, the empty string included,
\* replaces the session's receipt text.
C5_ExtractedTextReplaces ==
  (pc = "button" /\ extracted.t = "text") =>
     receipt_text.t = "text" /\ receipt_text.v = extracted.v


\* C6: a stored reply that is not a JSON object of the expected shape makes the
\* presenter report an error and show the stored text verbatim.
\* the value the stored reply holds under a key; null when it holds none
StoredField(key) ==
  IF verification_results.parse.t = "obj"
    THEN dict_get(verification_results.parse, key, JNull)
    ELSE JNull

\* the value is missing, null or an array of objects
ExpectedKind(v) == v.t = "null" \/ IsDictList(v)

\* the value is of another kind and Python takes it as false: 0, false, "", {}
FalsyOtherKind(v) == ~ExpectedKind(v) /\ ~Truthy(v)

ErrorAndRawShown == display.error /\ display.code = verification_results

\* C6 as stated: every reply that is no JSON, or whose top level is no object,
\* or whose matches / discrepancies value is of an unexpected kind.
C6_UnexpectedShapeShowsRaw ==
  pc = "idle" =>
    ( ( \/ verification_results.parse.t # "obj"
        \/ ~ExpectedKind(StoredField("matches"))
        \/ ~ExpectedKind(StoredField("discrepancies")) )
      => ErrorAndRawShown )

\* C6 as amended: every reply that is no JSON, or whose top level is no object,
\* or whose matches / discrepancies value is non-empty (true in Python) and is
\* not an array of objects; a value of an unexpected kind that Python takes as
\* false is presented as an empty array, without an error.
C6_TruthyUnexpectedShapeShowsRaw ==
  pc = "idle" =>
    LET m == StoredField("matches")
        d == StoredField("discrepancies")
    IN IF verification_results.parse.t # "obj" THEN ErrorAndRawShown
       ELSE IF \/ Truthy(m) /\ ~IsDictList(m)
               \/ Truthy(d) /\ ~IsDictList(d)
         THEN ErrorAndRawShown
         ELSE /\ ~display.error
              /\ FalsyOtherKind(m) => display.tab1 = "notice"
              /\ FalsyOtherKind(d) => display.tab2 = "notice"

C6_Witness ==
  /\ pc = "idle"
  /\ verification_results.parse.t = "obj"
  /\ StoredField("matches") = JList(<<Entry1, JNum(5)>>)
  /\ StoredField("discrepancies").t = "null"
  /\ display.tab1 = "table"
  /\ ErrorAndRawShown

\* C7: every click of the verify button causes exactly one request to the model
\* endpoint, and a run that no click triggered causes none; a failed request is
\* not repeated.
C7_OneCallPerClick ==
  pc # "start" =>
    /\ calls <= 1
    /\ calls = 1 => verify_button
    /\ (pc = "idle" /\ verify_button) => calls = 1
    /\ (pc \in {"payroll", "receipt", "button", "verify", "halted"}) => calls = 0

C7_Witness ==
  /\ pc = "idle" /\ verify_button /\ calls = 1
  /\ Shown("Error during OpenAI verification")

\* C8: with the credential unset or empty at script start, the run halts with
\* an error before any later step: no session entity exists, nothing is
\* rendered and no request is made; and no later step runs without it.
C8_NoCredentialHalts ==
  /\ pc = "halted" =>
       /\ env_key \in {"unset", ""}
       /\ Shown(KeyError)
       /\ payroll_data.t = "unset" /\ receipt_text.t = "unset"
       /\ verification_results.t = "unset"
       /\ calls = 0 /\ button = "not_rendered" /\ display = NoDisplay
  /\ pc \in {"payroll", "receipt", "button", "verify", "present", "idle"} =>
       env_key \notin {"unset", ""}

C8_Witness ==
  /\ pc = "halted" /\ env_key = "" /\ Shown(KeyError)

\* C9: the report is the title line, a blank line, 'Overall Assessment', the
\* assessment, a blank line, 'Matches', the header of the first match's field
\* names and one row per match of exactly that many fields (missing fields
\* empty) or 'No matches found', a blank line, 'Discrepancies', and the
\* discrepancies in the same shape.
SectionLen(entries) == IF Truthy(entries) THEN 2 + Len(entries.v) ELSE 2

SectionAt(rows, start, title, entries, noneLine) ==
  /\ rows[start] = <<JStr(title)>>
  /\ IF Truthy(entries)
       THEN LET first == entries.v[1].v
                header == rows[start + 1]
            IN /\ Len(header) = Len(first)
               /\ \A i \in 1..Len(first) : header[i] = JStr(first[i][1])
               /\ \A j \in 1..Len(entries.v) :
                    LET row == rows[start + 1 + j] IN
                    /\ Len(row) = Len(header)
                    /\ \A i \in 1..Len(first) :
                         LET held == {q \in 1..Len(entries.v[j].v) :
                                        entries.v[j].v[q][1] = first[i][1]}
                         IN IF held = {} THEN row[i] = JStr("")
                            ELSE \A q \in held : row[i] = entries.v[j].v[q][2]
       ELSE rows[start + 1] = <<JStr(noneLine)>>

C9_ReportLayout ==
  pc = "idle" =>
    LET m == StoredField("matches")
        d == StoredField("discrepancies")
        a == StoredField("overall_assessment")
        hasAssessment == /\ verification_results.parse.t = "obj"
                         /\ HasKey(verification_results.parse, "overall_assessment")
    IN /\ ( /\ verification_results.parse.t = "obj"
            /\ ~Truthy(m) \/ IsDictList(m)
            /\ ~Truthy(d) \/ IsDictList(d) ) => display.report.t = "csv"
       /\ display.report.t = "csv" =>
            LET rows == display.report.rows IN
            /\ \E now \in Clock : rows[1] = <<JStr(TitlePrefix \o now.title)>>
            /\ rows[2] = <<>>
            /\ rows[3] = <<JStr("Overall Assessment")>>
            /\ rows[4] = <<IF hasAssessment THEN a ELSE DefaultAssessment>>
            /\ rows[5] = <<>>
            /\ SectionAt(rows, 6, "Matches", m, "No matches found")
            /\ rows[6 + SectionLen(m)] = <<>>
            /\ SectionAt(rows, 7 + SectionLen(m), "Discrepancies", d,
                         "No discrepancies found")
            /\ Len(rows) = 6 + SectionLen(m) + SectionLen(d)

C9_Witness ==
  /\ pc = "idle"
  /\ StoredField("matches") = JList(<<Entry1, Entry2>>)
  /\ StoredField("discrepancies") = JList(<<>>)
  /\ display.report.t = "csv"
  /\ Len(display.report.rows) = 12

\* C10: verification_results is present only while payroll_data and
\* receipt_text are both present, and no step sets payroll_data or receipt_text
\* back to absent.
C10_ResultsImplyInputs ==
  /\ [](Truthy(verification_results) =>
          payroll_data.t = "df" /\ receipt_text.t = "text")
  /\ [][ /\ payroll_data.t = "df" => payroll_data'.t = "df"
         /\ receipt_text.t = "text" => receipt_text'.t = "text" ]_vars

C10_Witness ==
  /\ pc = "idle"
  /\ Truthy(verification_results)
  /\ Shown("Error reading payroll file")
  /\ Shown("Failed to extract text from the receipt.")
  /\ Shown("Error during OpenAI verification")

====
